---------------------------- MODULE Spec2Model ----------------------------
(***************************************************************************)
(* Model of gossip_tomography/inspect_raw.py: the decoder of signature-    *)
(* stripped announcements (decode_raw, decode_features,                    *)
(* parse_node_announcement, parse_addresses, parse_channel_announcement)   *)
(* and the reduction done by main (latest-timestamp index, statistics,     *)
(* channel report, fingerprint groups).                                    *)
(*                                                                         *)
(* Python values are represented as follows.                               *)
(*   bytes           sequence of integers 0..255                           *)
(*   str (computed)  sequence of code points (integers)                    *)
(*   str (literal key or tag, as "ipv4", "optional")  TLA+ string          *)
(*   dict with keys read in insertion order   sequence of entries          *)
(*   dict read by key only                    function                     *)
(*   None            the record None                                       *)
(*   arbitrary-precision int of a bitmap      sequence of bits, least      *)
(*                                            significant bit first        *)
(***************************************************************************)
EXTENDS Integers, Sequences, FiniteSets, TLC

VARIABLES
    pc,                 \* position of main: "node_anns", "chan_anns", "fingerprint", "save", "done", "raised"
    history,            \* the rows decoded so far: [raw, result], the bytes and what parse_node_announcement returned
    parsed_nodes,       \* main's dict node_id -> result, as the sequence of its values in insertion order
    parse_errors,       \* main's failure counter
    feat_counter,       \* Counter: feature name -> count
    flen_counter,       \* Counter: flen -> count
    addr_type_counter,  \* Counter: address type -> count
    fprint_groups,      \* main's dict features_hex -> [node_id], as a sequence of entries in insertion order
    chan_report,        \* [chan_parse_ok, chan_feat_counter] once the channel rows are read, None before
    output,             \* the document written to fingerprints.json, None before it is written
    df_pc,              \* position of a call of decode_features: "idle", "loop", "returned"
    feat_bytes,         \* the argument of that call
    df,                 \* its locals: [val, bit, features]
    pn_pc,              \* position of a call of parse_node_announcement: "idle", "returned"
    pn_raw,             \* the argument of that call
    pn_result,          \* what that call returned
    ca_pc,              \* position of a call of parse_channel_announcement: "idle", "returned"
    ca_raw,             \* the argument of that call
    ca_result,          \* what that call returned
    pa_pc,              \* position of a call of parse_addresses: "idle", "loop", "returned"
    pa_data,            \* the argument of that call
    pa                  \* its locals: [off, addrs, brk], brk set once the loop has ended in break

vars == <<pc, history, parsed_nodes, parse_errors, feat_counter, flen_counter,
          addr_type_counter, fprint_groups, chan_report, output, df_pc, feat_bytes, df,
          pn_pc, pn_raw, pn_result, ca_pc, ca_raw, ca_result, pa_pc, pa_data, pa>>

mainVars == <<pc, history, parsed_nodes, parse_errors, feat_counter, flen_counter,
              addr_type_counter, fprint_groups, chan_report, output>>

chanCallVars == <<ca_pc, ca_raw, ca_result>>

addrCallVars == <<pa_pc, pa_data, pa>>

decodeVars == <<df_pc, feat_bytes, df, pn_pc, pn_raw, pn_result, chanCallVars, addrCallVars>>

-----------------------------------------------------------------------------
(* Bounds of the model. *)

\* rows of node_anns read by one run of main
MaxRows == 3

\* longest feature bitmap handed to decode_features on its own
MaxFeatLen == 3

\* most bytes that follow the address list of a payload handed to
\* parse_node_announcement on its own
MaxExtra == 2

\* most descriptors of an address list handed to parse_addresses on its own
MaxDescriptors == 2

-----------------------------------------------------------------------------
(* Python primitives. *)

None == [py |-> "None"]

Min(a, b) == IF a < b THEN a ELSE b

\* s[lo:hi] for 0 <= lo <= hi: a slice never fails, it is cut at len(s)
Slice(s, lo, hi) ==
    IF lo >= Min(hi, Len(s)) THEN << >> ELSE SubSeq(s, lo + 1, Min(hi, Len(s)))

\* b"\x00" * n and the like
Repeat(x, n) == [i \in 1..n |-> x]

RECURSIVE int_from_bytes(_)
\* int.from_bytes(s, "big") for the fixed-width fields (at most 4 bytes)
int_from_bytes(s) ==
    IF s = << >> THEN 0
    ELSE (256 * int_from_bytes(SubSeq(s, 1, Len(s) - 1))) + s[Len(s)]

\* the 8 bits of one byte, least significant first
ByteBits(b) == [i \in 1..8 |-> (b \div (2 ^ (i - 1))) % 2]

RECURSIVE bits_from_bytes_little(_)
\* the bitmap read with its first byte as the least significant one
bits_from_bytes_little(s) ==
    IF s = << >> THEN << >> ELSE ByteBits(s[1]) \o bits_from_bytes_little(Tail(s))

RECURSIVE bits_from_bytes(_)
\* int.from_bytes(s, "big") of a bitmap of any length: the integer's bits,
\* least significant first, so the last byte comes first
bits_from_bytes(s) ==
    IF s = << >> THEN << >>
    ELSE ByteBits(s[Len(s)]) \o bits_from_bytes(SubSeq(s, 1, Len(s) - 1))

\* val > 0
BitsPositive(v) == \E i \in 1..Len(v) : v[i] = 1

\* val & 1
BitsLow(v) == IF v = << >> THEN 0 ELSE v[1]

\* val >> 1
BitsShift(v) == IF v = << >> THEN << >> ELSE Tail(v)

\* "0123456789abcdef"[d] as a code point
HexDigit(d) == IF d < 10 THEN 48 + d ELSE 87 + d

RECURSIVE hex(_)
\* bytes.hex(): two lowercase digits per byte
hex(s) ==
    IF s = << >> THEN << >>
    ELSE <<HexDigit(s[1] \div 16), HexDigit(s[1] % 16)>> \o hex(Tail(s))

\* the value of one hexadecimal digit given as a code point
HexValue(c) == IF c <= 57 THEN c - 48 ELSE c - 87

RECURSIVE fromhex(_)
\* bytes.fromhex() of a string that hex() produced
fromhex(h) ==
    IF Len(h) < 2 THEN << >>
    ELSE <<(16 * HexValue(h[1])) + HexValue(h[2])>> \o fromhex(SubSeq(h, 3, Len(h)))

RECURSIVE str(_)
\* str(n) of a non-negative integer, as code points
str(n) == IF n < 10 THEN <<48 + n>> ELSE str(n \div 10) \o <<48 + (n % 10)>>

RECURSIVE rstrip_zero(_)
\* bytes.rstrip(b"\x00")
rstrip_zero(s) ==
    IF s # << >> /\ s[Len(s)] = 0 THEN rstrip_zero(SubSeq(s, 1, Len(s) - 1)) ELSE s

\* bytes.decode("utf-8", errors="replace") on the inputs of this model, whose
\* text bytes are ASCII: a byte below 128 is its own code point, any other
\* byte is undecodable on its own and becomes U+FFFD
decode_utf8(s) == [i \in 1..Len(s) |-> IF s[i] < 128 THEN s[i] ELSE 65533]

-----------------------------------------------------------------------------
(* FEATURE_BITS and decode_features. *)

FEATURE_BITS ==
    (0 :> "data_loss_protect") @@ (1 :> "data_loss_protect") @@
    (4 :> "upfront_shutdown_script") @@ (5 :> "upfront_shutdown_script") @@
    (6 :> "gossip_queries") @@ (7 :> "gossip_queries") @@
    (8 :> "tlv_onion") @@ (9 :> "tlv_onion") @@
    (10 :> "gossip_queries_ex") @@ (11 :> "gossip_queries_ex") @@
    (12 :> "static_remote_key") @@ (13 :> "static_remote_key") @@
    (14 :> "payment_secret") @@ (15 :> "payment_secret") @@
    (16 :> "basic_mpp") @@ (17 :> "basic_mpp") @@
    (18 :> "large_channels") @@ (19 :> "large_channels") @@
    (20 :> "anchor_outputs") @@ (21 :> "anchor_outputs") @@
    (22 :> "anchors_zero_fee_htlc_tx") @@ (23 :> "anchors_zero_fee_htlc_tx") @@
    (24 :> "route_blinding") @@ (25 :> "route_blinding") @@
    (26 :> "shutdown_anysegwit") @@ (27 :> "shutdown_anysegwit") @@
    (28 :> "dual_fund") @@ (29 :> "dual_fund") @@
    (44 :> "channel_type") @@ (45 :> "channel_type") @@
    (46 :> "scid_alias") @@ (47 :> "scid_alias") @@
    (48 :> "payment_metadata") @@ (49 :> "payment_metadata") @@
    (50 :> "zero_conf") @@ (51 :> "zero_conf")

\* FEATURE_BITS.get(bit, f"unknown_bit_{bit}")
FeatureName(bit) ==
    IF bit \in DOMAIN FEATURE_BITS THEN FEATURE_BITS[bit]
    ELSE "unknown_bit_" \o ToString(bit)

\* the levels exchanged
FeatureKindSwapped(bit) == IF bit % 2 = 0 THEN "optional" ELSE "compulsory"

\* "compulsory" if bit % 2 == 0 else "optional"
FeatureKind(bit) == IF bit % 2 = 0 THEN "compulsory" ELSE "optional"

\* features[name] = kind
DictSet(d, k, v) == [x \in DOMAIN d \cup {k} |-> IF x = k THEN v ELSE d[x]]

\* the bitmap read least-significant byte first
DFInitLittle(fb) ==
    [val |-> IF fb # << >> THEN bits_from_bytes_little(fb) ELSE << >>,
     bit |-> 0, features |-> << >>]

\* the locals of decode_features before its loop
DFInit(fb) ==
    [val |-> IF fb # << >> THEN bits_from_bytes(fb) ELSE << >>,
     bit |-> 0, features |-> << >>]

\* one iteration of the loop of decode_features
DFStep(s) ==
    [val |-> BitsShift(s.val),
     bit |-> s.bit + 1,
     features |-> IF BitsLow(s.val) = 1
                  THEN DictSet(s.features, FeatureName(s.bit), FeatureKind(s.bit))
                  ELSE s.features]

RECURSIVE DFRun(_)
\* the loop of decode_features run to its end
DFRun(s) == IF BitsPositive(s.val) THEN DFRun(DFStep(s)) ELSE s

decode_features(fb) == DFRun(DFInit(fb)).features

-----------------------------------------------------------------------------
(* parse_addresses. *)

RECURSIVE Join(_, _)
\* sep.join(parts)
Join(parts, sep) ==
    IF parts = << >> THEN << >>
    ELSE IF Len(parts) = 1 THEN parts[1]
    ELSE parts[1] \o sep \o Join(Tail(parts), sep)

\* data[i] for a 0-based index i
At(data, i) == data[i + 1]

\* "torv2" and "torv3_onion"
TORV2_ADDR == <<116, 111, 114, 118, 50>>
TORV3_ADDR == <<116, 111, 114, 118, 51, 95, 111, 110, 105, 111, 110>>

\* the port read with its second byte as the most significant one
IPv4AddrPortLittle(data, off) ==
    Join([i \in 1..4 |-> str(At(data, off + i - 1))], <<46>>)
        \o <<58>> \o str(int_from_bytes(<<At(data, off + 5), At(data, off + 4)>>))

\* f"{ip}:{port}" of the IPv4 descriptor whose body starts at off
IPv4Addr(data, off) ==
    Join([i \in 1..4 |-> str(At(data, off + i - 1))], <<46>>)
        \o <<58>> \o str(int_from_bytes(Slice(data, off + 4, off + 6)))

\* f"[{ip}]:{port}" of the IPv6 descriptor whose body starts at off
IPv6Addr(data, off) ==
    <<91>>
        \o Join([g \in 1..8 |-> hex(<<At(data, off + 2 * (g - 1))>>)
                                  \o hex(<<At(data, off + 2 * (g - 1) + 1)>>)], <<58>>)
        \o <<93, 58>> \o str(int_from_bytes(Slice(data, off + 16, off + 18)))

\* f"{hostname}:{port}" of the DNS descriptor whose hostname starts at off
DNSAddr(data, off, hlen) ==
    decode_utf8(Slice(data, off, off + hlen))
        \o <<58>> \o str(int_from_bytes(Slice(data, off + hlen, off + hlen + 2)))

\* one iteration that appends a Tor descriptor of type unchecked, or a DNS
\* descriptor if unchecked is 5, without the length test of its body
PAStepUnchecked(data, s, unchecked) ==
    LET addr_type == At(data, s.off)
        off == s.off + 1
        stop == [off |-> off, addrs |-> s.addrs, brk |-> TRUE]
    IN  IF addr_type = 1 THEN
            IF off + 6 > Len(data) THEN stop
            ELSE [off |-> off + 6, brk |-> FALSE,
                  addrs |-> Append(s.addrs, [type |-> "ipv4", addr |-> IPv4Addr(data, off)])]
        ELSE IF addr_type = 2 THEN
            IF off + 18 > Len(data) THEN stop
            ELSE [off |-> off + 18, brk |-> FALSE,
                  addrs |-> Append(s.addrs, [type |-> "ipv6", addr |-> IPv6Addr(data, off)])]
        ELSE IF addr_type = 3 THEN
            IF unchecked # 3 /\ off + 12 > Len(data) THEN stop
            ELSE [off |-> off + 12, brk |-> FALSE,
                  addrs |-> Append(s.addrs, [type |-> "torv2", addr |-> TORV2_ADDR])]
        ELSE IF addr_type = 4 THEN
            IF unchecked # 4 /\ off + 37 > Len(data) THEN stop
            ELSE [off |-> off + 37, brk |-> FALSE,
                  addrs |-> Append(s.addrs, [type |-> "torv3", addr |-> TORV3_ADDR])]
        ELSE IF addr_type = 5 THEN
            IF off + 1 > Len(data) THEN stop
            ELSE LET hlen == At(data, off)
                     off2 == off + 1
                 IN  IF unchecked # 5 /\ off2 + hlen + 2 > Len(data)
                     THEN [off |-> off2, addrs |-> s.addrs, brk |-> TRUE]
                     ELSE [off |-> off2 + hlen + 2, brk |-> FALSE,
                           addrs |-> Append(s.addrs,
                               [type |-> "dns", addr |-> DNSAddr(data, off2, hlen)])]
        ELSE stop

\* the Tor v2 descriptor appended without the test of its 12 bytes
PAStepTorV2Unchecked(data, s) == PAStepUnchecked(data, s, 3)

\* the Tor v3 descriptor appended without the test of its 37 bytes
PAStepTorV3Unchecked(data, s) == PAStepUnchecked(data, s, 4)

\* the DNS descriptor appended without the test of its hostname and port
PAStepDNSUnchecked(data, s) == PAStepUnchecked(data, s, 5)

\* One iteration of the loop of parse_addresses, entered with s.off < len(data).
\* s = [off, addrs, brk]; brk is set when the iteration ends in break.
PAStep(data, s) ==
    LET addr_type == At(data, s.off)
        off == s.off + 1
        stop == [off |-> off, addrs |-> s.addrs, brk |-> TRUE]
    IN  IF addr_type = 1 THEN
            IF off + 6 > Len(data) THEN stop
            ELSE [off |-> off + 6, brk |-> FALSE,
                  addrs |-> Append(s.addrs, [type |-> "ipv4", addr |-> IPv4Addr(data, off)])]
        ELSE IF addr_type = 2 THEN
            IF off + 18 > Len(data) THEN stop
            ELSE [off |-> off + 18, brk |-> FALSE,
                  addrs |-> Append(s.addrs, [type |-> "ipv6", addr |-> IPv6Addr(data, off)])]
        ELSE IF addr_type = 3 THEN
            IF off + 12 > Len(data) THEN stop
            ELSE [off |-> off + 12, brk |-> FALSE,
                  addrs |-> Append(s.addrs, [type |-> "torv2", addr |-> TORV2_ADDR])]
        ELSE IF addr_type = 4 THEN
            IF off + 37 > Len(data) THEN stop
            ELSE [off |-> off + 37, brk |-> FALSE,
                  addrs |-> Append(s.addrs, [type |-> "torv3", addr |-> TORV3_ADDR])]
        ELSE IF addr_type = 5 THEN
            IF off + 1 > Len(data) THEN stop
            ELSE LET hlen == At(data, off)
                     off2 == off + 1
                 IN  IF off2 + hlen + 2 > Len(data)
                     THEN [off |-> off2, addrs |-> s.addrs, brk |-> TRUE]
                     ELSE [off |-> off2 + hlen + 2, brk |-> FALSE,
                           addrs |-> Append(s.addrs,
                               [type |-> "dns", addr |-> DNSAddr(data, off2, hlen)])]
        ELSE stop

RECURSIVE PARun(_, _)
\* the loop of parse_addresses run to its end
PARun(data, s) ==
    IF ~s.brk /\ s.off < Len(data) THEN PARun(data, PAStep(data, s)) ELSE s

parse_addresses(data) ==
    PARun(data, [off |-> 0, addrs |-> << >>, brk |-> FALSE]).addrs

-----------------------------------------------------------------------------
(* parse_node_announcement. *)

\* the length test of the fixed fields without the two bytes of flen
FlenOverrunUnchecked(off, flen, raw) == FALSE

\* off + flen + 4 + 33 + 3 + 32 + 2 > len(raw)
FlenOverrun(off, flen, raw) == off + flen + 4 + 33 + 3 + 32 + 2 > Len(raw)

parse_node_announcement(raw) ==
    IF Len(raw) < 2 + 4 + 33 + 3 + 32 + 2 THEN None
    ELSE
    LET flen == int_from_bytes(Slice(raw, 0, 2))
        off1 == 2
    IN  IF FlenOverrun(off1, flen, raw) THEN None
        ELSE
        LET features == Slice(raw, off1, off1 + flen)
            off2 == off1 + flen
            timestamp == int_from_bytes(Slice(raw, off2, off2 + 4))
            off3 == off2 + 4
            node_id == hex(Slice(raw, off3, off3 + 33))
            off4 == off3 + 33
            rgb == hex(Slice(raw, off4, off4 + 3))
            off5 == off4 + 3
            alias == decode_utf8(rstrip_zero(Slice(raw, off5, off5 + 32)))
            off6 == off5 + 32
            addrlen == int_from_bytes(Slice(raw, off6, off6 + 2))
            off7 == off6 + 2
            addr_bytes == Slice(raw, off7, off7 + addrlen)
            addresses == parse_addresses(addr_bytes)
        IN  [node_id |-> node_id,
             alias |-> alias,
             rgb |-> <<35>> \o rgb,
             timestamp |-> timestamp,
             flen |-> flen,
             features_hex |-> IF features # << >> THEN hex(features) ELSE << >>,
             features |-> decode_features(features),
             addresses |-> addresses,
             addr_types |-> [i \in 1..Len(addresses) |-> addresses[i].type]]

-----------------------------------------------------------------------------
(* parse_channel_announcement. *)

\* lines 186-208. scid, an integer of 64 bits, is kept as its bits, least
\* significant first.
parse_channel_announcement(raw) ==
    IF Len(raw) < 2 + 32 + 8 + (33 * 4) THEN None
    ELSE
    LET flen == int_from_bytes(Slice(raw, 0, 2))
        off1 == 2
        features == Slice(raw, off1, off1 + flen)
        off2 == off1 + flen
        chain_hash == hex(Slice(raw, off2, off2 + 32))
        off3 == off2 + 32
        scid == bits_from_bytes(Slice(raw, off3, off3 + 8))
        off4 == off3 + 8
        node1 == hex(Slice(raw, off4, off4 + 33))
        off5 == off4 + 33
        node2 == hex(Slice(raw, off5, off5 + 33))
    IN  [scid |-> scid,
         node1 |-> node1,
         node2 |-> node2,
         flen |-> flen,
         features_hex |-> IF features # << >> THEN hex(features) ELSE << >>,
         features |-> decode_features(features)]

-----------------------------------------------------------------------------
(* decode_raw: base64.urlsafe_b64decode of the padded text. *)

\* what a call that raised an exception yields
Raised == [py |-> "Error"]

\* the value of one character of the URL-safe alphabet ('+' and '/' count
\* too, as the decoder translates '-' and '_' to them); 64 for any other
B64Value(c) ==
    IF c >= 65 /\ c <= 90 THEN c - 65
    ELSE IF c >= 97 /\ c <= 122 THEN c - 71
    ELSE IF c >= 48 /\ c <= 57 THEN c + 4
    ELSE IF c = 45 \/ c = 43 THEN 62
    ELSE IF c = 95 \/ c = 47 THEN 63
    ELSE 64

\* One character of the non-strict decoder. st = [quad, left, pads, out, done].
B64Step(st, c) ==
    IF c = 61 THEN
        IF st.quad >= 2
        THEN IF st.quad + st.pads + 1 >= 4
             THEN [st EXCEPT !.pads = @ + 1, !.done = TRUE]
             ELSE [st EXCEPT !.pads = @ + 1]
        ELSE st
    ELSE LET v == B64Value(c) IN
        IF v >= 64 THEN st
        ELSE IF st.quad = 0 THEN [st EXCEPT !.pads = 0, !.quad = 1, !.left = v]
        ELSE IF st.quad = 1 THEN
            [st EXCEPT !.pads = 0, !.quad = 2, !.left = v % 16,
                       !.out = Append(@, (st.left * 4) + (v \div 16))]
        ELSE IF st.quad = 2 THEN
            [st EXCEPT !.pads = 0, !.quad = 3, !.left = v % 4,
                       !.out = Append(@, (st.left * 16) + (v \div 4))]
        ELSE [st EXCEPT !.pads = 0, !.quad = 0, !.left = 0,
                        !.out = Append(@, (st.left * 64) + v)]

RECURSIVE B64Span(_, _, _, _)
\* the characters text[lo..hi] read in order, none once the decoder is done;
\* the span is halved so that a long text needs no deep recursion
B64Span(st, text, lo, hi) ==
    IF st.done \/ lo > hi THEN st
    ELSE IF lo = hi THEN B64Step(st, text[lo])
    ELSE LET mid == (lo + hi) \div 2
         IN  B64Span(B64Span(st, text, lo, mid), text, mid + 1, hi)

\* the characters from text[i] on
B64Run(st, text, i) == B64Span(st, text, i, Len(text))

\* base64.urlsafe_b64decode(text): the bytes, or Raised (binascii.Error)
urlsafe_b64decode(text) ==
    LET st == B64Run([quad |-> 0, left |-> 0, pads |-> 0, out |-> << >>, done |-> FALSE],
                     text, 1)
    IN  IF ~st.done /\ st.quad # 0 THEN Raised ELSE st.out

decode_raw(raw_str) ==
    LET padding == (4 - (Len(raw_str) % 4)) % 4
    IN  urlsafe_b64decode(raw_str \o Repeat(61, padding))

-----------------------------------------------------------------------------
(* The reduction of main. *)

\* `if result:` - None is false, a dict is true unless it is empty
Truthy(result) == result # None /\ DOMAIN result # {}

\* nid in parsed_nodes
HasKey(nodes, nid) == \E i \in 1..Len(nodes) : nodes[i].node_id = nid

\* where parsed_nodes[nid] is kept
IndexOf(nodes, nid) == CHOOSE i \in 1..Len(nodes) : nodes[i].node_id = nid

\* the comparison reversed: the older announcement wins
Older(result, stored) == result.timestamp < stored.timestamp

\* no comparison: the record read last wins
LastWins(result, stored) == TRUE

\* the comparison weakened: a tie replaces the stored record
NewerOrEqual(result, stored) == result.timestamp >= stored.timestamp

\* result["timestamp"] > parsed_nodes[nid]["timestamp"]
Newer(result, stored) == result.timestamp > stored.timestamp

\* the index replaced by the one record: parsed_nodes = {nid: result}
KeepLatestAlone(nodes, result) == <<result>>

\* lines 231-233: keep the latest record per node; a replaced key keeps its
\* place in the dict
KeepLatest(nodes, result) ==
    LET nid == result.node_id IN
    IF ~HasKey(nodes, nid) THEN Append(nodes, result)
    ELSE LET i == IndexOf(nodes, nid) IN
         IF Newer(result, nodes[i]) THEN [nodes EXCEPT ![i] = result] ELSE nodes

\* counter[k] += 1 for every k of a set of keys
CounterAddAll(c, keys) ==
    [k \in DOMAIN c \cup keys |->
        (IF k \in DOMAIN c THEN c[k] ELSE 0) + (IF k \in keys THEN 1 ELSE 0)]

\* counter[k] = 1: the count is set, not added to
CounterSetOne(c, k) == [x \in DOMAIN c \cup {k} |-> IF x = k THEN 1 ELSE c[x]]

\* counter[k] += 1
CounterAdd(c, k) == CounterAddAll(c, {k})

RECURSIVE CounterAddSeq(_, _)
\* counter[k] += 1 for every k of a list, repetitions included
CounterAddSeq(c, ks) ==
    IF ks = << >> THEN c ELSE CounterAddSeq(CounterAdd(c, ks[1]), Tail(ks))

RECURSIVE FeatCount(_, _)
\* lines 243-245
FeatCount(c, nodes) ==
    IF nodes = << >> THEN c
    ELSE FeatCount(CounterAddAll(c, DOMAIN nodes[1].features), Tail(nodes))

RECURSIVE FlenCount(_, _)
\* lines 243, 246
FlenCount(c, nodes) ==
    IF nodes = << >> THEN c ELSE FlenCount(CounterAdd(c, nodes[1].flen), Tail(nodes))

RECURSIVE AddrTypeCount(_, _)
\* lines 243, 247-248
AddrTypeCount(c, nodes) ==
    IF nodes = << >> THEN c
    ELSE AddrTypeCount(CounterAddSeq(c, nodes[1].addr_types), Tail(nodes))

\* a key that forgets the leading zero bytes of the bitmap
GroupKeyUnpadded(n) ==
    LET RECURSIVE Strip(_)
        Strip(h) == IF Len(h) >= 2 /\ h[1] = 48 /\ h[2] = 48
                    THEN Strip(SubSeq(h, 3, Len(h))) ELSE h
    IN  Strip(n.features_hex)

\* key = n["features_hex"]
GroupKey(n) == n.features_hex

\* setdefault without the append for a key that is already there
GroupAppendFirstOnly(groups, key, nid) ==
    IF \E i \in 1..Len(groups) : groups[i].key = key THEN groups
    ELSE Append(groups, [key |-> key, nodes |-> <<nid>>])

\* fprint_groups.setdefault(key, []).append(nid)
GroupAppend(groups, key, nid) ==
    IF \E i \in 1..Len(groups) : groups[i].key = key
    THEN LET i == CHOOSE j \in 1..Len(groups) : groups[j].key = key
         IN  [groups EXCEPT ![i].nodes = Append(@, nid)]
    ELSE Append(groups, [key |-> key, nodes |-> <<nid>>])

RECURSIVE GroupAll(_, _)
\* lines 289-292
GroupAll(groups, nodes) ==
    IF nodes = << >> THEN groups
    ELSE GroupAll(GroupAppend(groups, GroupKey(nodes[1]), nodes[1].node_id), Tail(nodes))

\* key=lambda x: -len(x[1])
SortKey(item) == 0 - Len(item.nodes)

\* an insertion that puts the item before its equals: the sort is not stable
InsertUnstable(srt, x) ==
    LET before == Cardinality({i \in 1..Len(srt) : SortKey(srt[i]) < SortKey(x)})
    IN  SubSeq(srt, 1, before) \o <<x>> \o SubSeq(srt, before + 1, Len(srt))

\* x put into the sorted list srt behind every item whose key is not greater
InsertStable(srt, x) ==
    LET before == Cardinality({i \in 1..Len(srt) : SortKey(srt[i]) <= SortKey(x)})
    IN  SubSeq(srt, 1, before) \o <<x>> \o SubSeq(srt, before + 1, Len(srt))

RECURSIVE sorted(_)
\* sorted(items, key=...), which is stable
sorted(items) ==
    IF items = << >> THEN << >>
    ELSE InsertStable(sorted(SubSeq(items, 1, Len(items) - 1)), items[Len(items)])

\* lines 304-318
Output(counter, groups, nodes) ==
    LET srt == sorted(groups) IN
    [feature_prevalence |-> counter,
     fingerprint_groups |->
        [i \in 1..Len(srt) |->
            [features_hex |-> srt[i].key,
             feature_names |-> IF srt[i].key # << >>
                               THEN DOMAIN decode_features(fromhex(srt[i].key)) ELSE {},
             node_count |-> Len(srt[i].nodes),
             sample_nodes |-> Slice(srt[i].nodes, 0, 5),
             all_nodes |-> srt[i].nodes]],
     total_unique_fingerprints |-> Len(groups),
     total_nodes_parsed |-> Len(nodes)]

-----------------------------------------------------------------------------
(* The inputs: stored rows are built the way the archive stores them, the   *)
(* signature-stripped announcement in URL-safe base64 without padding.     *)

U16(n) == <<n \div 256, n % 256>>

U32(n) == <<n \div 16777216, (n \div 65536) % 256, (n \div 256) % 256, n % 256>>

\* a node_announcement without its signature; flen and addrlen are the
\* declared lengths, which a malformed message need not honour
NodeAnn(flen, features, timestamp, idbyte, alias, addrlen, addresses) ==
    U16(flen) \o features \o U32(timestamp) \o Repeat(idbyte, 33) \o <<0, 0, 0>>
        \o alias \o Repeat(0, 32 - Len(alias)) \o U16(addrlen) \o addresses

B64Char(v) ==
    IF v < 26 THEN 65 + v
    ELSE IF v < 52 THEN 71 + v
    ELSE IF v < 62 THEN v - 4
    ELSE IF v = 62 THEN 45 ELSE 95

RECURSIVE B64Encode(_)
\* the stored text of a payload
B64Encode(b) ==
    IF b = << >> THEN << >>
    ELSE IF Len(b) = 1 THEN <<B64Char(b[1] \div 4), B64Char((b[1] % 4) * 16)>>
    ELSE IF Len(b) = 2 THEN
        <<B64Char(b[1] \div 4), B64Char(((b[1] % 4) * 16) + (b[2] \div 16)),
          B64Char((b[2] % 16) * 4)>>
    ELSE <<B64Char(b[1] \div 4), B64Char(((b[1] % 4) * 16) + (b[2] \div 16)),
           B64Char(((b[2] % 16) * 4) + (b[3] \div 64)), B64Char(b[3] % 64)>>
         \o B64Encode(SubSeq(b, 4, Len(b)))

Prefixes(b) == {SubSeq(b, 1, n) : n \in 0..Len(b)}

\* "Test"
TEST_ALIAS == <<84, 101, 115, 116>>

\* 01 7F000001 2607: IPv4 127.0.0.1:9735
IPV4_DESCRIPTOR == <<1, 127, 0, 0, 1, 38, 7>>

\* 05 02 "ln" 2607: DNS ln:9735
DNS_DESCRIPTOR == <<5, 2, 108, 110, 38, 7>>

\* the first byte of the node ids of the batch
RowNodeIds == {2, 3, 4}

RowTimestamps == {100, 200}

\* two bitmaps with the same set bit (bit 1) and different lengths
RowFeatures == {<<2>>, <<0, 2>>}

\* the address list each node announces
RowAddresses(idbyte) ==
    IF idbyte = 2 THEN IPV4_DESCRIPTOR
    ELSE IF idbyte = 3 THEN << >>
    ELSE DNS_DESCRIPTOR \o IPV4_DESCRIPTOR

RowPayload(f, ts, id) ==
    NodeAnn(Len(f), f, ts, id, TEST_ALIAS, Len(RowAddresses(id)), RowAddresses(id))

\* the texts a row of node_anns may hold: well-formed announcements, one cut
\* below the fixed fields, and one text that is not base64
NodeAnnRows ==
    {B64Encode(RowPayload(f, ts, id)) :
        f \in RowFeatures, ts \in RowTimestamps, id \in RowNodeIds}
    \cup {B64Encode(SubSeq(RowPayload(<<2>>, 100, 2), 1, 75))}
    \cup {<<65>>}

\* the byte values of the bitmaps handed to decode_features on its own
FeatByteVals == {0, 1, 2, 3, 4, 128, 255}

RECURSIVE SeqsUpTo(_, _)
\* the sequences over S of length at most n
SeqsUpTo(S, n) ==
    IF n = 0 THEN {<< >>}
    ELSE LET shorter == SeqsUpTo(S, n - 1)
         IN  shorter \cup {Append(q, x) : q \in shorter, x \in S}

FeatInputs == SeqsUpTo(FeatByteVals, MaxFeatLen)

\* the payloads handed to parse_node_announcement on its own: announcements
\* with and without features and addresses, followed by up to MaxExtra
\* bytes, and every prefix of each
ParseBases ==
    {NodeAnn(Len(f), f, 1, 2, TEST_ALIAS, Len(a), a) \o Repeat(9, MaxExtra) :
        f \in {<< >>, <<3>>, <<0, 2>>}, a \in {<< >>, IPV4_DESCRIPTOR}}

\* 0002 0002 00000001, 33 zero bytes, 3 zero bytes, "Test" padded to 32
\* bytes, the declared addrlen, then 01 7F000001 2607
TestPayload(addrlen) == NodeAnn(2, <<0, 2>>, 1, 0, TEST_ALIAS, addrlen, IPV4_DESCRIPTOR)

\* announcements whose address list, of the declared length, ends in bytes
\* that make no descriptor
PartialListPayloads ==
    {NodeAnn(0, << >>, 1, 2, TEST_ALIAS, Len(a), a) :
        a \in {IPV4_DESCRIPTOR \o <<3, 0, 0>>,
               DNS_DESCRIPTOR \o IPV4_DESCRIPTOR \o <<9>>,
               <<1, 127, 0, 0>>}}

ParseInputs ==
    UNION {Prefixes(b) : b \in ParseBases}
        \cup {TestPayload(6), TestPayload(7)} \cup PartialListPayloads

\* a channel_announcement without its signatures; flen is the declared
\* length, which a malformed message need not honour. chain_hash is zero
\* and the four keys are zero but for their last byte, so that a feature
\* slice that runs into them stays a small integer.
ChanAnn(flen, features, scid, id1, id2) ==
    U16(flen) \o features \o Repeat(0, 32) \o scid
        \o Repeat(0, 32) \o <<id1>> \o Repeat(0, 32) \o <<id2>>
        \o Repeat(0, 32) \o <<4>> \o Repeat(0, 32) \o <<5>>

CHAN_SCID == <<0, 0, 0, 0, 0, 0, 0, 7>>

ZERO_SCID == <<0, 0, 0, 0, 0, 0, 0, 0>>

\* the payloads handed to parse_channel_announcement on its own:
\* announcements without and with features, announcements of 174 bytes that
\* declare 66, 67 and 73 bytes of features, and every prefix of each
ChanBases ==
    {ChanAnn(0, << >>, CHAN_SCID, 2, 3), ChanAnn(2, <<0, 2>>, CHAN_SCID, 2, 3),
     ChanAnn(66, << >>, ZERO_SCID, 2, 3), ChanAnn(67, << >>, ZERO_SCID, 2, 3),
     ChanAnn(73, << >>, ZERO_SCID, 2, 3)}

ChanInputs == UNION {Prefixes(b) : b \in ChanBases}

\* the batches chan_anns may hold: four texts (an announcement with
\* features, one without, one cut below the fixed fields, one that declares
\* more features than it carries), alone or followed by a text that is not
\* base64
CHAN_ROWS ==
    <<B64Encode(ChanAnn(2, <<0, 2>>, CHAN_SCID, 2, 3)),
      B64Encode(ChanAnn(0, << >>, CHAN_SCID, 3, 4)),
      B64Encode(SubSeq(ChanAnn(0, << >>, CHAN_SCID, 2, 3), 1, 173)),
      B64Encode(ChanAnn(73, << >>, ZERO_SCID, 2, 4))>>

ChanAnnBatches == {CHAN_ROWS, Append(CHAN_ROWS, <<65>>)}

\* 02, sixteen bytes, 2607: IPv6 [2001:db8::1]:9735
IPV6_DESCRIPTOR == <<2, 32, 1, 13, 184>> \o Repeat(0, 11) \o <<1, 38, 7>>

\* 03, ten bytes, 2607
TORV2_DESCRIPTOR == <<3>> \o Repeat(170, 10) \o <<38, 7>>

\* 04, thirty-five bytes, 2607
TORV3_DESCRIPTOR == <<4>> \o Repeat(187, 35) \o <<38, 7>>

\* 05 00 2607: a DNS descriptor with an empty hostname
DNS_EMPTY_DESCRIPTOR == <<5, 0, 38, 7>>

\* a tag that is no address type
UNKNOWN_TAG == <<9>>

Descriptors ==
    {IPV4_DESCRIPTOR, IPV6_DESCRIPTOR, TORV2_DESCRIPTOR, TORV3_DESCRIPTOR,
     DNS_DESCRIPTOR, DNS_EMPTY_DESCRIPTOR, UNKNOWN_TAG}

RECURSIVE Lists(_)
\* the address lists of at most n descriptors
Lists(n) ==
    IF n = 0 THEN {<< >>}
    ELSE LET shorter == Lists(n - 1)
         IN  shorter \cup {l \o d : l \in shorter, d \in Descriptors}

\* the byte values of the three bytes that follow a complete descriptor
TrailByteVals == {0, 1, 2, 3, 4, 5, 6, 255}

\* the address lists handed to parse_addresses on its own: up to
\* MaxDescriptors descriptors and every prefix of them, and one IPv4
\* descriptor followed by three bytes
AddrInputs ==
    UNION {Prefixes(l) : l \in Lists(MaxDescriptors)}
        \cup {IPV4_DESCRIPTOR \o <<a, b, c>> : a, b, c \in TrailByteVals}

-----------------------------------------------------------------------------
(* main. *)

MainIdle ==
    /\ pc = "node_anns"
    /\ history = << >>
    /\ parsed_nodes = << >>
    /\ parse_errors = 0
    /\ feat_counter = << >>
    /\ flen_counter = << >>
    /\ addr_type_counter = << >>
    /\ fprint_groups = << >>
    /\ chan_report = None
    /\ output = None

DecodeIdle ==
    /\ df_pc = "idle"
    /\ feat_bytes = << >>
    /\ df = DFInit(<< >>)
    /\ pn_pc = "idle"
    /\ pn_raw = << >>
    /\ pn_result = None
    /\ ca_pc = "idle"
    /\ ca_raw = << >>
    /\ ca_result = None
    /\ pa_pc = "idle"
    /\ pa_data = << >>
    /\ pa = [off |-> 0, addrs |-> << >>, brk |-> FALSE]

Init == MainIdle /\ DecodeIdle

\* line 227 for every text a row may hold: [raw_str, raw] with
\* raw = decode_raw(raw_str), the bytes or Raised
DecodedRows == {[raw_str |-> row, raw |-> decode_raw(row)] : row \in NodeAnnRows}

\* lines 226-235: one row of node_anns. An exception of decode_raw is not
\* caught: it ends main.
NodeAnnRow ==
    /\ pc = "node_anns"
    /\ Len(history) < MaxRows
    /\ \E row \in DecodedRows :
        LET raw == row.raw IN
        IF raw = Raised
        THEN /\ pc' = "raised"
             /\ UNCHANGED <<history, parsed_nodes, parse_errors>>
        ELSE LET result == parse_node_announcement(raw) IN
             /\ pc' = pc
             /\ history' = Append(history, [raw |-> raw, result |-> result])
             /\ IF Truthy(result)
                THEN /\ parsed_nodes' = KeepLatest(parsed_nodes, result)
                     /\ UNCHANGED parse_errors
                ELSE /\ parse_errors' = parse_errors + 1
                     /\ UNCHANGED parsed_nodes
    /\ UNCHANGED <<feat_counter, flen_counter, addr_type_counter, fprint_groups,
                   chan_report, output>>
    /\ UNCHANGED decodeVars

\* lines 239-248, once the rows are exhausted
FeatureStatistics ==
    /\ pc = "node_anns"
    /\ feat_counter' = FeatCount(<< >>, parsed_nodes)
    /\ flen_counter' = FlenCount(<< >>, parsed_nodes)
    /\ addr_type_counter' = AddrTypeCount(<< >>, parsed_nodes)
    /\ pc' = "chan_anns"
    /\ UNCHANGED <<history, parsed_nodes, parse_errors, fprint_groups, chan_report, output>>
    /\ UNCHANGED decodeVars

RECURSIVE ChanLoop(_, _)
\* lines 269-275 over the rows of chan_anns; st = [chan_parse_ok,
\* chan_feat_counter]. An exception of decode_raw is not caught.
ChanLoop(st, rows) ==
    IF rows = << >> THEN st
    ELSE LET raw == decode_raw(rows[1]) IN
         IF raw = Raised THEN Raised
         ELSE LET result == parse_channel_announcement(raw) IN
              IF Truthy(result)
              THEN ChanLoop([chan_parse_ok |-> st.chan_parse_ok + 1,
                             chan_feat_counter |->
                                 CounterAddAll(st.chan_feat_counter, DOMAIN result.features)],
                            Tail(rows))
              ELSE ChanLoop(st, Tail(rows))

\* lines 267-275 for every batch chan_anns may hold: [rows, report] with
\* report the two counters after the loop, or Raised
ChanReports ==
    {[rows |-> b,
      report |-> ChanLoop([chan_parse_ok |-> 0, chan_feat_counter |-> << >>], b)] :
        b \in ChanAnnBatches}

\* lines 264-283: the rows of chan_anns, whose counters are only printed
ChannelAnnouncements ==
    /\ pc = "chan_anns"
    /\ \E b \in ChanReports :
        IF b.report = Raised
        THEN /\ pc' = "raised"
             /\ UNCHANGED chan_report
        ELSE /\ pc' = "fingerprint"
             /\ chan_report' = b.report
    /\ UNCHANGED <<history, parsed_nodes, parse_errors, feat_counter, flen_counter,
                   addr_type_counter, fprint_groups, output>>
    /\ UNCHANGED decodeVars

\* lines 289-292
FingerprintGroups ==
    /\ pc = "fingerprint"
    /\ fprint_groups' = GroupAll(<< >>, parsed_nodes)
    /\ pc' = "save"
    /\ UNCHANGED <<history, parsed_nodes, parse_errors, feat_counter, flen_counter,
                   addr_type_counter, chan_report, output>>
    /\ UNCHANGED decodeVars

\* lines 304-322
Save ==
    /\ pc = "save"
    /\ output' = Output(feat_counter, fprint_groups, parsed_nodes)
    /\ pc' = "done"
    /\ UNCHANGED <<history, parsed_nodes, parse_errors, feat_counter, flen_counter,
                   addr_type_counter, fprint_groups, chan_report>>
    /\ UNCHANGED decodeVars

Next == NodeAnnRow \/ FeatureStatistics \/ ChannelAnnouncements \/ FingerprintGroups \/ Save

Spec == Init /\ [][Next]_vars

-----------------------------------------------------------------------------
(* The decoders called on their own. *)

\* no call is under way or has returned
NoCall == df_pc = "idle" /\ pn_pc = "idle" /\ ca_pc = "idle" /\ pa_pc = "idle"

\* decode_features(fb) is entered: lines 74-77
DecodeFeaturesCall ==
    /\ NoCall
    /\ \E fb \in FeatInputs :
        /\ feat_bytes' = fb
        /\ df' = DFInit(fb)
    /\ df_pc' = "loop"
    /\ UNCHANGED <<pn_pc, pn_raw, pn_result, chanCallVars, addrCallVars>>
    /\ UNCHANGED mainVars

\* lines 78-84: one iteration
DecodeFeaturesLoop ==
    /\ df_pc = "loop"
    /\ BitsPositive(df.val)
    /\ df' = DFStep(df)
    /\ UNCHANGED <<df_pc, feat_bytes, pn_pc, pn_raw, pn_result, chanCallVars, addrCallVars>>
    /\ UNCHANGED mainVars

\* line 85
DecodeFeaturesReturn ==
    /\ df_pc = "loop"
    /\ ~BitsPositive(df.val)
    /\ df_pc' = "returned"
    /\ UNCHANGED <<feat_bytes, df, pn_pc, pn_raw, pn_result, chanCallVars, addrCallVars>>
    /\ UNCHANGED mainVars

\* parse_node_announcement(raw), lines 94-130
ParseNodeAnnouncement ==
    /\ NoCall
    /\ \E raw \in ParseInputs :
        /\ pn_raw' = raw
        /\ pn_result' = parse_node_announcement(raw)
    /\ pn_pc' = "returned"
    /\ UNCHANGED <<df_pc, feat_bytes, df, chanCallVars, addrCallVars>>
    /\ UNCHANGED mainVars

\* parse_channel_announcement(raw), lines 186-208
ParseChannelAnnouncement ==
    /\ NoCall
    /\ \E raw \in ChanInputs :
        /\ ca_raw' = raw
        /\ ca_result' = parse_channel_announcement(raw)
    /\ ca_pc' = "returned"
    /\ UNCHANGED <<df_pc, feat_bytes, df, pn_pc, pn_raw, pn_result, addrCallVars>>
    /\ UNCHANGED mainVars

\* parse_addresses(data) is entered: lines 135-136
ParseAddressesCall ==
    /\ NoCall
    /\ \E data \in AddrInputs :
        /\ pa_data' = data
        /\ pa' = [off |-> 0, addrs |-> << >>, brk |-> FALSE]
    /\ pa_pc' = "loop"
    /\ UNCHANGED <<df_pc, feat_bytes, df, pn_pc, pn_raw, pn_result, chanCallVars>>
    /\ UNCHANGED mainVars

\* lines 137-176: one iteration
ParseAddressesLoop ==
    /\ pa_pc = "loop"
    /\ ~pa.brk
    /\ pa.off < Len(pa_data)
    /\ pa' = PAStep(pa_data, pa)
    /\ UNCHANGED <<pa_pc, pa_data>>
    /\ UNCHANGED <<df_pc, feat_bytes, df, pn_pc, pn_raw, pn_result, chanCallVars>>
    /\ UNCHANGED mainVars

\* line 177, after a break or with the data exhausted
ParseAddressesReturn ==
    /\ pa_pc = "loop"
    /\ pa.brk \/ pa.off >= Len(pa_data)
    /\ pa_pc' = "returned"
    /\ UNCHANGED <<pa_data, pa>>
    /\ UNCHANGED <<df_pc, feat_bytes, df, pn_pc, pn_raw, pn_result, chanCallVars>>
    /\ UNCHANGED mainVars

NextDecode ==
    \/ DecodeFeaturesCall \/ DecodeFeaturesLoop \/ DecodeFeaturesReturn
    \/ ParseNodeAnnouncement
    \/ ParseChannelAnnouncement
    \/ ParseAddressesCall \/ ParseAddressesLoop \/ ParseAddressesReturn

SpecDecode == Init /\ [][NextDecode]_vars

\* a call of parse_addresses that has been entered runs on: the loop takes
\* its next iteration and the function returns when the loop has ended
SpecDecodeFair ==
    SpecDecode /\ WF_vars(ParseAddressesLoop) /\ WF_vars(ParseAddressesReturn)

-----------------------------------------------------------------------------
(* Properties of the index built by main. *)

\* the positions of history whose row decoded to a record
DecodedAt == {i \in 1..Len(history) : Truthy(history[i].result)}

\* the positions of history that decoded to a record of node nid
DecodedOf(nid) == {i \in DecodedAt : history[i].result.node_id = nid}

\* the node ids that occurred
OccurredIds == {history[i].result.node_id : i \in DecodedAt}

\* the greatest timestamp decoded for node nid
MaxTimestamp(nid) ==
    CHOOSE t \in {history[i].result.timestamp : i \in DecodedOf(nid)} :
        \A i \in DecodedOf(nid) : history[i].result.timestamp <= t

\* the first position of history that carries the greatest timestamp of nid
FirstLatest(nid) ==
    CHOOSE i \in DecodedOf(nid) :
        /\ history[i].result.timestamp = MaxTimestamp(nid)
        /\ \A j \in DecodedOf(nid) :
              history[j].result.timestamp = MaxTimestamp(nid) => i <= j

\* C1: after any sequence of decoded node announcements the index holds
\* exactly one record for each node_id that occurred and none for any other,
\* and the timestamp of that record is the greatest timestamp decoded for that
\* node_id, whatever the arrival order.
C1_LatestPerNode ==
    /\ \A nid \in OccurredIds :
          /\ Cardinality({k \in 1..Len(parsed_nodes) : parsed_nodes[k].node_id = nid}) = 1
          /\ \A k \in 1..Len(parsed_nodes) :
                parsed_nodes[k].node_id = nid =>
                    parsed_nodes[k].timestamp = MaxTimestamp(nid)
    /\ \A k \in 1..Len(parsed_nodes) : parsed_nodes[k].node_id \in OccurredIds

\* C1 witness: a node announced with timestamp 200 and then with 100, and
\* again with 100 and then 200, is in the index with timestamp 200
C1_Witness ==
    /\ \E i, j \in DecodedAt :
          /\ i < j
          /\ history[i].result.node_id = history[j].result.node_id
          /\ history[i].result.timestamp = 200
          /\ history[j].result.timestamp = 100
          /\ \E k \in 1..Len(parsed_nodes) :
                /\ parsed_nodes[k].node_id = history[i].result.node_id
                /\ parsed_nodes[k].timestamp = 200
    /\ \E i, j \in DecodedAt :
          /\ i < j
          /\ history[i].result.node_id = history[j].result.node_id
          /\ history[i].result.timestamp = 100
          /\ history[j].result.timestamp = 200
          /\ \E k \in 1..Len(parsed_nodes) :
                /\ parsed_nodes[k].node_id = history[i].result.node_id
                /\ parsed_nodes[k].timestamp = 200

\* C2: when announcements of one node_id carry equal timestamps the index
\* keeps the one inserted first: the record kept for a node_id is the first
\* decoded record that carries the greatest timestamp of that node_id, so a
\* later record replaces the stored one only if its timestamp is strictly
\* greater.
C2_TieKeepsFirst ==
    \A k \in 1..Len(parsed_nodes) :
        /\ parsed_nodes[k].node_id \in OccurredIds
        /\ parsed_nodes[k] = history[FirstLatest(parsed_nodes[k].node_id)].result

\* C2 witness: two different records of one node with the same timestamp
\* were decoded, and the index holds the first
C2_Witness ==
    \E i, j \in DecodedAt :
        /\ i < j
        /\ history[i].result.node_id = history[j].result.node_id
        /\ history[i].result.timestamp = history[j].result.timestamp
        /\ history[i].result # history[j].result
        /\ \E k \in 1..Len(parsed_nodes) : parsed_nodes[k] = history[i].result
        /\ \A k \in 1..Len(parsed_nodes) : parsed_nodes[k] # history[j].result

-----------------------------------------------------------------------------
(* Order and partitions of the reduction. *)

Range(q) == {q[i] : i \in 1..Len(q)}

\* the decoded records in the order main read them
DecodedSeq == SelectSeq([i \in 1..Len(history) |-> history[i].result], Truthy)

Perms(n) == {p \in [1..n -> 1..n] : \A i, j \in 1..n : p[i] = p[j] => i = j}

RECURSIVE Reduce(_, _)
\* the records recs folded into the index nodes by the rule of lines 231-233
Reduce(nodes, recs) ==
    IF recs = << >> THEN nodes ELSE Reduce(KeepLatest(nodes, recs[1]), Tail(recs))

\* two partial indexes merged with the keep-greatest-timestamp rule
Merge(a, b) == Reduce(a, b)

\* the groups as key and member set
GroupSets(groups) == {<<groups[g].key, Range(groups[g].nodes)>> : g \in 1..Len(groups)}

\* the index nodes holds the records main kept, and gives the groups and
\* the counters main computed
SameReduction(nodes) ==
    /\ Range(nodes) = Range(parsed_nodes)
    /\ GroupSets(GroupAll(<< >>, nodes)) = GroupSets(fprint_groups)
    /\ FeatCount(<< >>, nodes) = feat_counter
    /\ FlenCount(<< >>, nodes) = flen_counter
    /\ AddrTypeCount(<< >>, nodes) = addr_type_counter

\* every order of the decoded records, and every split of every order into
\* two partitions reduced separately and merged, gives what main computed
AnyOrderAnySplit ==
    LET n == Len(DecodedSeq) IN
    \A p \in Perms(n) :
        LET recs == [i \in 1..n |-> DecodedSeq[p[i]]] IN
        /\ SameReduction(Reduce(<< >>, recs))
        /\ \A k \in 1..(n - 1) :
              SameReduction(Merge(Reduce(<< >>, SubSeq(recs, 1, k)),
                                  Reduce(<< >>, SubSeq(recs, k + 1, n))))

\* no two different records of one node_id carry the same timestamp
NoConflictingTie ==
    \A i, j \in DecodedAt :
        (/\ history[i].result.node_id = history[j].result.node_id
         /\ history[i].result.timestamp = history[j].result.timestamp)
        => history[i].result = history[j].result

\* C3 as stated: for any decoded records, every processing order and every
\* split into partitions that are reduced separately and merged produces the
\* same surviving record per node_id, the same group membership and the same
\* counters.
C3_OrderIndependent == pc = "done" => AnyOrderAnySplit

\* C3 amended: the same, for decoded records among which no two different
\* records of one node_id carry the same timestamp.
C3_OrderIndependentWithoutTies == (pc = "done" /\ NoConflictingTie) => AnyOrderAnySplit

\* C3 witness: main finished on three decoded records, two of one node with
\* different timestamps and one of another node, whose order matters to the
\* fold's intermediate states but not to what it produced
C3_Witness ==
    /\ pc = "done"
    /\ NoConflictingTie
    /\ Len(DecodedSeq) = 3
    /\ DecodedSeq[1].node_id = DecodedSeq[3].node_id
    /\ DecodedSeq[1].timestamp > DecodedSeq[3].timestamp
    /\ DecodedSeq[1].features_hex # DecodedSeq[3].features_hex
    /\ DecodedSeq[2].node_id # DecodedSeq[1].node_id

-----------------------------------------------------------------------------
(* Fingerprint groups. *)

\* the groups that list node nid, with the place in the member list
GroupsOf(nid) ==
    {gm \in {<<g, m>> : g \in 1..Len(fprint_groups), m \in 1..Len(parsed_nodes)} :
        /\ gm[2] <= Len(fprint_groups[gm[1]].nodes)
        /\ fprint_groups[gm[1]].nodes[gm[2]] = nid}

\* the one group of a surviving node
GroupIndex(nid) == CHOOSE g \in 1..Len(fprint_groups) : nid \in Range(fprint_groups[g].nodes)

RECURSIVE SumLen(_)
SumLen(lists) == IF lists = << >> THEN 0 ELSE Len(lists[1]) + SumLen(Tail(lists))

SurvivorKeys == {parsed_nodes[k].features_hex : k \in 1..Len(parsed_nodes)}

\* C4: the fingerprint groups partition the surviving records: every
\* surviving node_id is listed once, in the group whose key is its
\* features_hex; no group is empty or lists a node that did not survive; the
\* member counts sum to the number of survivors and there are as many groups
\* as distinct features_hex values; the saved document reports the same.
C4_GroupsPartition ==
    /\ pc \in {"save", "done"} =>
        /\ \A k \in 1..Len(parsed_nodes) :
              /\ Cardinality(GroupsOf(parsed_nodes[k].node_id)) = 1
              /\ \A gm \in GroupsOf(parsed_nodes[k].node_id) :
                    fprint_groups[gm[1]].key = parsed_nodes[k].features_hex
        /\ \A g \in 1..Len(fprint_groups) :
              /\ fprint_groups[g].nodes # << >>
              /\ Len(fprint_groups[g].nodes) <= Len(parsed_nodes)
              /\ Range(fprint_groups[g].nodes) \subseteq
                    {parsed_nodes[k].node_id : k \in 1..Len(parsed_nodes)}
        /\ SumLen([g \in 1..Len(fprint_groups) |-> fprint_groups[g].nodes])
              = Len(parsed_nodes)
        /\ Len(fprint_groups) = Cardinality(SurvivorKeys)
        /\ {fprint_groups[g].key : g \in 1..Len(fprint_groups)} = SurvivorKeys
    /\ pc = "done" =>
        /\ output.total_unique_fingerprints = Cardinality(SurvivorKeys)
        /\ output.total_nodes_parsed = Len(parsed_nodes)
        /\ Len(output.fingerprint_groups) = Cardinality(SurvivorKeys)
        /\ SumLen([g \in 1..Len(output.fingerprint_groups) |->
                      output.fingerprint_groups[g].all_nodes]) = Len(parsed_nodes)
        /\ \A g \in 1..Len(output.fingerprint_groups) :
              /\ output.fingerprint_groups[g].node_count
                    = Len(output.fingerprint_groups[g].all_nodes)
              /\ output.fingerprint_groups[g].node_count > 0
              /\ \A m \in 1..Len(output.fingerprint_groups[g].all_nodes) :
                    \E k \in 1..Len(parsed_nodes) :
                        /\ parsed_nodes[k].node_id = output.fingerprint_groups[g].all_nodes[m]
                        /\ parsed_nodes[k].features_hex = output.fingerprint_groups[g].features_hex

\* C4 witness: three announcements with distinct node ids and two distinct
\* feature byte strings were saved as exactly 2 groups whose counts sum to 3
C4_Witness ==
    /\ pc = "done"
    /\ Len(history) = 3
    /\ Len(parsed_nodes) = 3
    /\ Cardinality(SurvivorKeys) = 2
    /\ Len(output.fingerprint_groups) = 2
    /\ output.fingerprint_groups[1].node_count + output.fingerprint_groups[2].node_count = 3

\* the feature bytes of a payload that decoded: the flen bytes after the
\* two bytes of flen
FeatureBytesOf(raw) == SubSeq(raw, 3, 2 + (raw[1] * 256) + raw[2])

\* the bit indices set in a bitmap: bit b is bit b % 8 of the byte b \div 8
\* places before the last
SetBits(fb) ==
    {b \in 0..(8 * Len(fb) - 1) : (fb[Len(fb) - (b \div 8)] \div (2 ^ (b % 8))) % 2 = 1}

\* the positions of history whose record is in the index
SurvivingAt == {i \in DecodedAt : history[i].result \in Range(parsed_nodes)}

\* C5: two surviving records with byte-identical feature bytes are in the
\* same fingerprint group, in whatever order they were decoded, and two
\* surviving records whose feature bytes have the same set bits and different
\* lengths (zero padding) are in different groups.
C5_GroupByExactBytes ==
    pc \in {"save", "done"} =>
        \A i, j \in SurvivingAt :
            LET fi == FeatureBytesOf(history[i].raw)
                fj == FeatureBytesOf(history[j].raw)
                gi == GroupIndex(history[i].result.node_id)
                gj == GroupIndex(history[j].result.node_id)
            IN  /\ fi = fj => gi = gj
                /\ (SetBits(fi) = SetBits(fj) /\ Len(fi) # Len(fj)) => gi # gj

\* C5 witness: of three surviving nodes two carry the same feature bytes,
\* decoded before and after a third whose bitmap is the zero-padded one; the
\* two share a group and the third is alone in another
C5_Witness ==
    /\ pc = "save"
    /\ Len(parsed_nodes) = 3
    /\ SurvivingAt = {1, 2, 3}
    /\ FeatureBytesOf(history[1].raw) = <<2>>
    /\ FeatureBytesOf(history[2].raw) = <<0, 2>>
    /\ FeatureBytesOf(history[3].raw) = <<2>>
    /\ GroupIndex(history[1].result.node_id) = GroupIndex(history[3].result.node_id)
    /\ GroupIndex(history[2].result.node_id) # GroupIndex(history[1].result.node_id)

\* where a group key is first met when the index is read in insertion order
FirstEncounter(key) ==
    CHOOSE k \in 1..Len(parsed_nodes) :
        /\ parsed_nodes[k].features_hex = key
        /\ \A l \in 1..(k - 1) : parsed_nodes[l].features_hex # key

\* C6: the saved list of fingerprint groups is in descending order of member
\* count, and groups of equal count are in the order in which their keys were
\* first met while grouping the surviving nodes.
C6_GroupsOrdered ==
    pc = "done" =>
        \A a, b \in 1..Len(output.fingerprint_groups) :
            a < b =>
                LET ga == output.fingerprint_groups[a]
                    gb == output.fingerprint_groups[b]
                IN  /\ ga.node_count >= gb.node_count
                    /\ ga.node_count = gb.node_count =>
                          FirstEncounter(ga.features_hex) < FirstEncounter(gb.features_hex)

\* C6 witness: the group met first has one member and the group met second
\* has two, and the saved list starts with the larger
C6_Witness ==
    /\ pc = "done"
    /\ Len(fprint_groups) = 2
    /\ Len(fprint_groups[1].nodes) = 1
    /\ Len(fprint_groups[2].nodes) = 2
    /\ output.fingerprint_groups[1].features_hex = fprint_groups[2].key
    /\ output.fingerprint_groups[2].features_hex = fprint_groups[1].key

-----------------------------------------------------------------------------
(* decode_features. *)

\* the level BOLT 9 gives a bit index
LevelOf(b) == IF b % 2 = 1 THEN "optional" ELSE "compulsory"

\* the name reported for a bit index
NameOf(b) ==
    IF b \in DOMAIN FEATURE_BITS THEN FEATURE_BITS[b] ELSE "unknown_bit_" \o ToString(b)

\* the highest set bit of fb that is reported under name
HighestNamed(fb, name) ==
    CHOOSE b \in SetBits(fb) :
        /\ NameOf(b) = name
        /\ \A c \in SetBits(fb) : NameOf(c) = name => c <= b

\* C7 as stated: every set bit yields exactly one (name, level) pair of the
\* result, so that the result has as many entries as the bitmap has set bits,
\* with level optional iff the bit index is odd.
C7_OnePairPerSetBit ==
    df_pc = "returned" =>
        /\ Cardinality(DOMAIN df.features) = Cardinality(SetBits(feat_bytes))
        /\ \A b \in SetBits(feat_bytes) :
              /\ NameOf(b) \in DOMAIN df.features
              /\ df.features[NameOf(b)] = LevelOf(b)

\* C7 amended: the call returns after at most 8 * len iterations; the result
\* has one entry for each distinct name among the set bits, and the level of
\* an entry is that of the highest set bit reported under its name: optional
\* iff that bit index is odd, compulsory iff it is even.
C7_OnePairPerName ==
    /\ df_pc = "loop" => df.bit + Len(df.val) = 8 * Len(feat_bytes)
    /\ df_pc = "returned" =>
        /\ df.bit <= 8 * Len(feat_bytes)
        /\ Cardinality(DOMAIN df.features)
              = Cardinality({NameOf(b) : b \in SetBits(feat_bytes)})
        /\ \A b \in SetBits(feat_bytes) : NameOf(b) \in DOMAIN df.features
        /\ \A name \in DOMAIN df.features :
              /\ \E b \in SetBits(feat_bytes) : NameOf(b) = name
              /\ df.features[name] = LevelOf(HighestNamed(feat_bytes, name))
              /\ df.features[name] = "optional"
                    <=> HighestNamed(feat_bytes, name) % 2 = 1
              /\ df.features[name] = "compulsory"
                    <=> HighestNamed(feat_bytes, name) % 2 = 0

\* C7 witness: 0x03 0x04 has bits 2, 8 and 9 set; the result has the two
\* entries unknown_bit_2 (compulsory) and tlv_onion (optional)
C7_Witness ==
    /\ df_pc = "returned"
    /\ feat_bytes = <<3, 4>>
    /\ df.features = [n \in {"unknown_bit_2", "tlv_onion"} |->
                         IF n = "tlv_onion" THEN "optional" ELSE "compulsory"]

\* C8: decode_features reports a name for bit index b exactly when bit b of
\* the input read as one big-endian unsigned integer is set, bit 0 being the
\* least significant bit of the last byte: after the iterations for the bits
\* below df.bit the names reported are those of the set bits below df.bit,
\* and the returned names are those of all set bits. The name is the table
\* entry, or unknown_bit_<b>. A zero-length input yields an empty map, and an
\* announcement with flen 0 decodes with an empty map and an empty
\* features_hex.
C8_BigEndianBits ==
    /\ df_pc \in {"loop", "returned"} =>
          DOMAIN df.features = {NameOf(b) : b \in {c \in SetBits(feat_bytes) : c < df.bit}}
    /\ df_pc = "returned" =>
          /\ DOMAIN df.features = {NameOf(b) : b \in SetBits(feat_bytes)}
          /\ feat_bytes = << >> => df.features = << >>
    /\ (/\ pn_pc = "returned"
        /\ Len(pn_raw) >= 76
        /\ pn_raw[1] = 0 /\ pn_raw[2] = 0) =>
          /\ pn_result # None
          /\ pn_result.flen = 0
          /\ pn_result.features = << >>
          /\ pn_result.features_hex = << >>

\* C8 witness: 0x80 0x00 0x04 has bits 2 and 23 set, bit 23 being the top bit
\* of the first byte; the names are unknown_bit_2 and anchors_zero_fee_htlc_tx
C8_Witness ==
    /\ df_pc = "returned"
    /\ feat_bytes = <<128, 0, 4>>
    /\ DOMAIN df.features = {"unknown_bit_2", "anchors_zero_fee_htlc_tx"}

-----------------------------------------------------------------------------
(* parse_node_announcement. *)

\* the flen a payload of at least 2 bytes declares
DeclaredFlen(raw) == (raw[1] * 256) + raw[2]

\* the offset of addrlen in a payload
AddrlenOffset(raw) == 2 + DeclaredFlen(raw) + 4 + 33 + 3 + 32

\* the addrlen a payload declares
DeclaredAddrlen(raw) == (raw[AddrlenOffset(raw) + 1] * 256) + raw[AddrlenOffset(raw) + 2]

\* C9: parse_node_announcement returns None for every payload shorter than
\* 2+4+33+3+32+2 = 76 bytes and for every payload whose declared flen makes
\* flen plus the fixed fields extend past the end of the buffer; a record is
\* returned only with all its fixed fields read in full.
C9_ShortPayloadIsNone ==
    pn_pc = "returned" =>
        /\ Len(pn_raw) < 76 => pn_result = None
        /\ (Len(pn_raw) >= 2 /\ 2 + DeclaredFlen(pn_raw) + 74 > Len(pn_raw))
              => pn_result = None
        /\ pn_result # None =>
              /\ Len(pn_raw) >= 76 + pn_result.flen
              /\ pn_result.flen = DeclaredFlen(pn_raw)
              /\ Len(pn_result.features_hex) = 2 * pn_result.flen
              /\ Len(pn_result.node_id) = 66

\* C9 witness: a payload of at least 76 bytes whose declared flen reaches
\* past its end was refused
C9_Witness ==
    /\ pn_pc = "returned"
    /\ Len(pn_raw) >= 76
    /\ 2 + DeclaredFlen(pn_raw) + 74 > Len(pn_raw)
    /\ pn_result = None

\* C10: parse_node_announcement fails whenever the declared addrlen reaches
\* past the end of the buffer; it never parses an address list shorter than
\* addrlen bytes.
C10_AddrlenOverrunIsNone ==
    (/\ pn_pc = "returned"
     /\ Len(pn_raw) >= 76
     /\ AddrlenOffset(pn_raw) + 2 <= Len(pn_raw)
     /\ AddrlenOffset(pn_raw) + 2 + DeclaredAddrlen(pn_raw) > Len(pn_raw))
    => pn_result = None

-----------------------------------------------------------------------------
(* C11: parse_channel_announcement and payloads that are too short. *)

\* the bytes of a channel payload from its start to the end of node_id_2,
\* with the flen it declares
ChannelFieldsEnd(raw) == 2 + DeclaredFlen(raw) + 32 + 8 + 33 + 33

\* C11: parse_channel_announcement returns None for every payload shorter
\* than its fixed minimum of 2+32+8+33*4 = 174 bytes and for every payload
\* whose declared flen makes features, chain_hash, short_channel_id,
\* node_id_1 and node_id_2 extend past the end of the buffer; a returned
\* record has features of exactly flen bytes and node ids of exactly 33
\* bytes (66 hexadecimal digits).
C11_ChannelOverrunIsNone ==
    ca_pc = "returned" =>
        /\ Len(ca_raw) < 174 => ca_result = None
        /\ (Len(ca_raw) >= 2 /\ ChannelFieldsEnd(ca_raw) > Len(ca_raw))
              => ca_result = None
        /\ ca_result # None =>
              /\ ca_result.flen = DeclaredFlen(ca_raw)
              /\ Len(ca_result.features_hex) = 2 * ca_result.flen
              /\ Len(ca_result.node1) = 66
              /\ Len(ca_result.node2) = 66

-----------------------------------------------------------------------------
(* C12: the descriptors parse_addresses returns. *)

\* the body length the descriptor at the 0-based position pos declares:
\* 6, 18, 12, 37, or 1 + hostname length + 2; -1 if its tag is none of
\* 1..5 or the hostname length is not there to be read
DeclaredBody(data, pos) ==
    LET tag == data[pos + 1] IN
    IF tag = 1 THEN 6
    ELSE IF tag = 2 THEN 18
    ELSE IF tag = 3 THEN 12
    ELSE IF tag = 4 THEN 37
    ELSE IF tag = 5 THEN (IF pos + 2 <= Len(data) THEN 1 + data[pos + 2] + 2 ELSE -1)
    ELSE -1

RECURSIVE Readable(_, _)
\* the descriptors of data from position pos on, [tag, body], up to the
\* first one whose tag is unknown or whose body is not there in full
Readable(data, pos) ==
    IF pos >= Len(data) THEN << >>
    ELSE LET body == DeclaredBody(data, pos) IN
         IF body < 0 \/ Len(data) - (pos + 1) < body THEN << >>
         ELSE <<[tag |-> data[pos + 1], body |-> SubSeq(data, pos + 2, pos + 1 + body)]>>
                  \o Readable(data, pos + 1 + body)

\* the address a readable descriptor stands for
AddressOf(d) ==
    IF d.tag = 1 THEN [type |-> "ipv4", addr |-> IPv4Addr(d.body, 0)]
    ELSE IF d.tag = 2 THEN [type |-> "ipv6", addr |-> IPv6Addr(d.body, 0)]
    ELSE IF d.tag = 3 THEN [type |-> "torv2", addr |-> TORV2_ADDR]
    ELSE IF d.tag = 4 THEN [type |-> "torv3", addr |-> TORV3_ADDR]
    ELSE [type |-> "dns", addr |-> DNSAddr(d.body, 1, d.body[1])]

\* the addresses of the readable descriptors of data, in wire order
ReadableAddresses(data) ==
    LET r == Readable(data, 0) IN [i \in 1..Len(r) |-> AddressOf(r[i])]

\* the address list of a payload whose declared flen and addrlen fit
AddressBytes(raw) ==
    SubSeq(raw, AddrlenOffset(raw) + 3, AddrlenOffset(raw) + 2 + DeclaredAddrlen(raw))

\* the declared address list of a payload lies within the buffer
AddressListFits(raw) ==
    /\ Len(raw) >= 76
    /\ AddrlenOffset(raw) + 2 <= Len(raw)
    /\ AddrlenOffset(raw) + 2 + DeclaredAddrlen(raw) <= Len(raw)

\* C12: for every address list, parse_addresses returns in wire order
\* exactly the descriptors that are readable in full before the first point
\* where the tag is not one of 1..5 or fewer bytes remain than the declared
\* body length (6, 18, 12, 37, or 1 + hostname length + 2); it returns a
\* list whatever the bytes, and a node announcement whose address list ends
\* in such a point is still decoded, with that partial list.
C12_ReadableDescriptors ==
    /\ pa_pc = "returned" => pa.addrs = ReadableAddresses(pa_data)
    /\ (pn_pc = "returned" /\ AddressListFits(pn_raw)) =>
          /\ pn_result # None
          /\ pn_result.addresses = ReadableAddresses(AddressBytes(pn_raw))

\* a DNS descriptor followed by the tag of an IPv6 descriptor and less than
\* its 18 bytes: one address is returned
C12_Witness ==
    /\ pa_pc = "returned"
    /\ pa.brk
    /\ Len(pa_data) > 7
    /\ pa_data[7] = 2
    /\ Len(pa.addrs) = 1
    /\ pa.addrs[1].type = "dns"

-----------------------------------------------------------------------------
(* C13: the end-to-end payload. *)

\* "127.0.0.1:9735"
LOCALHOST_9735 == <<49, 50, 55, 46, 48, 46, 48, 46, 49, 58, 57, 55, 51, 53>>

\* flen 2, features {data_loss_protect: optional}, timestamp 1, alias "Test"
TestRecordFields(result) ==
    /\ result # None
    /\ result.flen = 2
    /\ result.features = [n \in {"data_loss_protect"} |-> "optional"]
    /\ result.timestamp = 1
    /\ result.alias = TEST_ALIAS

\* C13 as stated: the payload 0002 0002 00000001, 33 zero bytes, 3 zero
\* bytes, "Test" padded to 32 bytes, addrlen 0006, 01 7F000001 2607 decodes
\* to flen 2, features {data_loss_protect: optional}, timestamp 1, alias
\* "Test" and exactly one address, IPv4 127.0.0.1:9735.
C13_TestVector ==
    (pn_pc = "returned" /\ pn_raw = TestPayload(6)) =>
        /\ TestRecordFields(pn_result)
        /\ pn_result.addresses = <<[type |-> "ipv4", addr |-> LOCALHOST_9735]>>

\* C13, amended: the same payload with addrlen 0007, the length of the
\* descriptor 01 7F000001 2607, decodes to flen 2, features
\* {data_loss_protect: optional}, timestamp 1, alias "Test" and exactly one
\* address, IPv4 127.0.0.1:9735; with addrlen 0006 the address list ends
\* before the second byte of the port and the same record is returned with
\* an empty address list.
C13_TestVectorAddrlen7 ==
    /\ (pn_pc = "returned" /\ pn_raw = TestPayload(7)) =>
          /\ TestRecordFields(pn_result)
          /\ pn_result.addresses = <<[type |-> "ipv4", addr |-> LOCALHOST_9735]>>
          /\ pn_result.addr_types = <<"ipv4">>
    /\ (pn_pc = "returned" /\ pn_raw = TestPayload(6)) =>
          /\ TestRecordFields(pn_result)
          /\ pn_result.addresses = << >>

\* the payload with addrlen 0007 has been decoded to a record
C13_Witness ==
    /\ pn_pc = "returned"
    /\ pn_raw = TestPayload(7)
    /\ pn_result # None
    /\ Len(pn_result.addresses) = 1

-----------------------------------------------------------------------------
(* C14: one IPv4 descriptor and three bytes. *)

\* data is the descriptor 01 7F000001 2607 followed by 3 bytes
IPv4AndThreeBytes(data) ==
    Len(data) = Len(IPV4_DESCRIPTOR) + 3 /\ SubSeq(data, 1, Len(IPV4_DESCRIPTOR)) = IPV4_DESCRIPTOR

\* C14: an address list of one complete IPv4 descriptor followed by 3 bytes
\* yields exactly one address, the IPv4 one, whatever the 3 bytes are:
\* the loop of parse_addresses ends with that list, never with more, and
\* parse_addresses returns it.
C14_IPv4ThenThreeBytes ==
    /\ (pa_pc = "loop" /\ IPv4AndThreeBytes(pa_data)) => Len(pa.addrs) <= 1
    /\ (pa_pc = "returned" /\ IPv4AndThreeBytes(pa_data)) =>
          /\ pa.addrs = <<[type |-> "ipv4", addr |-> LOCALHOST_9735]>>
          /\ parse_addresses(pa_data) = pa.addrs

\* the three bytes are the tag of a DNS descriptor, a hostname length of 0
\* and one byte of the port
C14_Witness ==
    /\ pa_pc = "returned"
    /\ IPv4AndThreeBytes(pa_data)
    /\ pa_data[8] = 5
    /\ pa_data[9] = 0
    /\ pa.brk
    /\ Len(pa.addrs) = 1

-----------------------------------------------------------------------------
(* C15: a row that fails. *)

\* a step of main that reads one row of node_anns
RowStep == pc = "node_anns" /\ pc' # "chan_anns" /\ mainVars' # mainVars

\* the rows read so far whose decode gave no record
FailedAt(h) == {i \in 1..Len(h) : ~Truthy(h[i].result)}

\* C15: no row of node_anns is fatal: whatever its text and its bytes, the
\* step that reads it either folds the decoded record into the index, the
\* failure counter unchanged, or adds one to the failure counter and leaves
\* the index unchanged, and main goes on to the next row; after it the
\* failure counter is the number of rows read whose decode failed.
C15_NoRowIsFatal ==
    [][RowStep =>
          /\ pc' = "node_anns"
          /\ Len(history') = Len(history) + 1
          /\ LET result == history'[Len(history')].result IN
                IF Truthy(result)
                THEN /\ parse_errors' = parse_errors
                     /\ \E k \in 1..Len(parsed_nodes') :
                           /\ parsed_nodes'[k].node_id = result.node_id
                           /\ parsed_nodes'[k].timestamp >= result.timestamp
                ELSE /\ parse_errors' = parse_errors + 1
                     /\ parsed_nodes' = parsed_nodes
          /\ parse_errors' = Cardinality(FailedAt(history'))]_vars

-----------------------------------------------------------------------------
(* C16: the counters of main. *)

\* the statistics of lines 239-248 have been computed
StatsDone == pc \in {"chan_anns", "fingerprint", "save", "done"}

\* the record of node nid that survives, read from the rows: the first one
\* with the greatest timestamp
Latest(nid) == history[FirstLatest(nid)].result

\* the surviving records, read from the rows
Survivors == {Latest(nid) : nid \in OccurredIds}

RECURSIVE SumCounter(_)
\* the sum of the counts of a counter
SumCounter(c) ==
    IF DOMAIN c = {} THEN 0
    ELSE LET k == CHOOSE x \in DOMAIN c : TRUE
         IN  c[k] + SumCounter([x \in DOMAIN c \ {k} |-> c[x]])

\* the addresses of the records of a set, each as <<record, position>>
AddressesIn(records) ==
    UNION {{<<r, i>> : i \in 1..Len(r.addresses)} : r \in records}

\* C16: the counters are computed over the surviving records only: the count
\* of a feature name f is the number of node_ids whose latest record has f in
\* its features, so it never exceeds the number of survivors and no
\* superseded announcement is counted; the counts of the flen histogram are
\* the numbers of survivors with that flen and sum to the number of
\* survivors; the count of an address type is the number of addresses of
\* that type in the surviving records, each address counted once.
C16_CountersOverSurvivors ==
    StatsDone =>
        LET survivors == Survivors
            addresses == AddressesIn(survivors)
        IN  /\ Cardinality(survivors) = Len(parsed_nodes)
            /\ DOMAIN feat_counter = UNION {DOMAIN r.features : r \in survivors}
            /\ \A f \in DOMAIN feat_counter :
                  /\ feat_counter[f] = Cardinality({r \in survivors : f \in DOMAIN r.features})
                  /\ feat_counter[f] <= Len(parsed_nodes)
            /\ DOMAIN flen_counter = {r.flen : r \in survivors}
            /\ \A l \in DOMAIN flen_counter :
                  flen_counter[l] = Cardinality({r \in survivors : r.flen = l})
            /\ SumCounter(flen_counter) = Len(parsed_nodes)
            /\ DOMAIN addr_type_counter = {a[1].addresses[a[2]].type : a \in addresses}
            /\ \A t \in DOMAIN addr_type_counter :
                  addr_type_counter[t] =
                      Cardinality({a \in addresses : a[1].addresses[a[2]].type = t})

\* a node announced with flen 2 and then, with a greater timestamp, with
\* flen 1, and a second node with two addresses: flen 2 is not counted and
\* ipv4 is counted once for each node
C16_Witness ==
    /\ pc = "done"
    /\ Len(parsed_nodes) = 2
    /\ \E i, j \in DecodedAt :
          /\ i < j
          /\ history[i].result.node_id = history[j].result.node_id
          /\ history[i].result.flen = 2
          /\ history[j].result.flen = 1
          /\ history[i].result.timestamp < history[j].result.timestamp
    /\ \E k \in 1..Len(parsed_nodes) : Len(parsed_nodes[k].addresses) = 2
    /\ DOMAIN flen_counter = {1}
    /\ flen_counter[1] = 2
    /\ addr_type_counter["ipv4"] = 2
    /\ addr_type_counter["dns"] = 1
    /\ feat_counter["data_loss_protect"] = 2

-----------------------------------------------------------------------------
(* C17: the loop of parse_addresses. *)

\* the positions of data that the iteration entered with s reads by index:
\* the tag (line 138), the 16 bytes of an IPv6 address (line 150) and the
\* hostname length (line 166); the other reads are slices
PAIndexed(data, s) ==
    LET addr_type == data[s.off + 1]
        off == s.off + 1
    IN  {s.off}
        \cup (IF addr_type = 2 /\ ~(off + 18 > Len(data)) THEN {off + i : i \in 0..15} ELSE {})
        \cup (IF addr_type = 5 /\ ~(off + 1 > Len(data)) THEN {off} ELSE {})

\* the offset is within the data, and so is every position the next
\* iteration reads by index
C17_OffsetInBounds ==
    /\ pa.off >= 0
    /\ pa.off <= Len(pa_data)
    /\ (pa_pc = "loop" /\ ~pa.brk /\ pa.off < Len(pa_data)) =>
          \A i \in PAIndexed(pa_data, pa) : i >= 0 /\ i < Len(pa_data)

\* an iteration breaks or moves the offset forward, and appends at most one
\* descriptor
C17_IterationAdvances ==
    (pa_pc = "loop" /\ pa' # pa) =>
        /\ pa'.brk \/ pa'.off > pa.off
        /\ pa'.brk => pa'.addrs = pa.addrs
        /\ ~pa'.brk => Len(pa'.addrs) = Len(pa.addrs) + 1

\* C17: parse_addresses terminates on every input: each iteration of its
\* loop either breaks or strictly increases the offset, the offset never
\* exceeds the length of the input (after an append or a break), no position
\* at or beyond that length is read by index, and a call that has been
\* entered returns.
C17_Terminates ==
    /\ []C17_OffsetInBounds
    /\ [][C17_IterationAdvances]_vars
    /\ (pa_pc = "loop") ~> (pa_pc = "returned")

\* a call has returned after an IPv6 and a DNS descriptor that end the data
C17_Witness ==
    /\ pa_pc = "returned"
    /\ ~pa.brk
    /\ Len(pa.addrs) = 2
    /\ pa.addrs[1].type = "ipv6"
    /\ pa.addrs[2].type = "dns"
    /\ pa.off = Len(pa_data)

-----------------------------------------------------------------------------
(* C18: the index from one step to the next. *)

\* the entry of node nid in the index nodes
EntryOf(nodes, nid) == nodes[CHOOSE k \in 1..Len(nodes) : nodes[k].node_id = nid]

\* the node ids that have an entry in the index nodes
KeysOf(nodes) == {nodes[k].node_id : k \in 1..Len(nodes)}

\* the node id of the record the step has read, if it read one
StepKeys ==
    IF history' # history /\ Truthy(history'[Len(history')].result)
    THEN {history'[Len(history')].result.node_id}
    ELSE {}

\* C18: from one step of main to the next the index only grows and only
\* moves forward in time: a node_id that has an entry keeps one, the
\* timestamp of its entry does not decrease, and the entries of all node_ids
\* but the one of the record just read are unchanged.
C18_IndexMonotone ==
    [][/\ KeysOf(parsed_nodes) \subseteq KeysOf(parsed_nodes')
       /\ \A nid \in KeysOf(parsed_nodes) :
             /\ EntryOf(parsed_nodes', nid).timestamp >= EntryOf(parsed_nodes, nid).timestamp
             /\ nid \notin StepKeys => EntryOf(parsed_nodes', nid) = EntryOf(parsed_nodes, nid)
       /\ KeysOf(parsed_nodes') \subseteq KeysOf(parsed_nodes) \cup StepKeys]_vars

\* node A with timestamp 100, then node B, then node A with timestamp 200:
\* the entry of A has moved to 200 and that of B is as it was read
C18_Witness ==
    /\ pc = "node_anns"
    /\ Len(history) = 3
    /\ Len(parsed_nodes) = 2
    /\ \A i \in 1..3 : Truthy(history[i].result)
    /\ history[1].result.node_id = history[3].result.node_id
    /\ history[1].result.timestamp = 100
    /\ history[3].result.timestamp = 200
    /\ history[2].result.node_id # history[1].result.node_id
    /\ parsed_nodes = <<history[3].result, history[2].result>>

=============================================================================
